---- MODULE Spec2Model ----
\* A model of VirusGenealogy<Virus> (src/virus_genealogy.h): the map `viruses`
\* from identifier to node, each node's `parents` and `children` sets, and the
\* operations create (both overloads), connect and remove.
\*
\* Nodes are heap objects held by shared pointers; the model names a node object
\* by its identifier.  The std::set<std::shared_ptr<VirusNode>> of a node is the
\* set of identifiers of the objects it points to.  The copy `viruses_copy` made
\* by remove copies the map only: the node objects are shared by both maps, so
\* the cascade's erasures act on the nodes the live map `viruses` also holds.
\*
\* Line 276 of the source iterates `rem_it->childrens`; VirusNode has no such
\* member (remove does not instantiate as written).  The model reads it as
\* `rem_it->children`, the member the surrounding code and comments mean.
EXTENDS Integers, Sequences, FiniteSets, TLC

\* ---------------------------------------------------------------- bounds
MaxId == 3          \* identifiers are 0..MaxId
MaxParents == 2     \* longest parent_ids vector passed to create
MaxEdges == 4       \* successful create/connect calls keep at most this many edges

Ids == 0..MaxId

\* The identifier given to the constructor.
stem_id == 0

VirusNotFound == "VirusNotFound"
VirusAlreadyCreated == "VirusAlreadyCreated"
TriedToRemoveStemVirus == "TriedToRemoveStemVirus"

VARIABLES
    viruses,        \* keys of the map `viruses`
    parents,        \* parents[n]: VirusNode::parents of the node object n
    children,       \* children[n]: VirusNode::children of the node object n
    pc,             \* "idle", or "cascade" inside remove's while loop
    to_remove,      \* remove's work queue
    viruses_copy,   \* keys of remove's local map `viruses_copy`
    last,           \* the last call: operation, arguments, outcome
    pre             \* the structure when the last call started

vars == <<viruses, parents, children, pc, to_remove, viruses_copy, last, pre>>

\* ------------------------------------------------------- pure structure
\* A structure value: the map's keys and the node objects' sets.
Graph(V, P, C) == [viruses |-> V, parents |-> P, children |-> C]

Cur == Graph(viruses, parents, children)

exists(g, id) == id \in g.viruses

get_parents(g, id) == g.parents[id]

get_children(g, id) == g.children[id]

\* std::make_shared<VirusNode>(id): a fresh node object with empty sets, not
\* yet in the map.
make_shared(g, id) ==
    [g EXCEPT !.parents = [n \in (DOMAIN g.parents) \cup {id} |->
                              IF n = id THEN {} ELSE g.parents[n]],
              !.children = [n \in (DOMAIN g.children) \cup {id} |->
                              IF n = id THEN {} ELSE g.children[n]]]

add_parent(g, node, p) == [g EXCEPT !.parents[node] = @ \cup {p}]

add_child(g, node, c) == [g EXCEPT !.children[node] = @ \cup {c}]

\* viruses[id] = new_virus_ptr
insert(g, id) == [g EXCEPT !.viruses = @ \cup {id}]

Result(g, r) == [g |-> g, res |-> r]

\* A create(id, parent_id) that does not tell the parent about its child.
create1_nochild(g, id, parent_id) ==
    IF exists(g, id) THEN Result(g, VirusAlreadyCreated)
    ELSE IF ~exists(g, parent_id) THEN Result(g, VirusNotFound)
    ELSE Result(insert(add_parent(make_shared(g, id), id, parent_id), id), "ok")

\* A create(id, parent_id) with its two tests in the other order.
create1_parentfirst(g, id, parent_id) ==
    IF ~exists(g, parent_id) THEN Result(g, VirusNotFound)
    ELSE IF exists(g, id) THEN Result(g, VirusAlreadyCreated)
    ELSE Result(insert(add_child(add_parent(make_shared(g, id), id, parent_id),
                                 parent_id, id), id), "ok")

\* A create(id, parent_id) that tests the parent before the new identifier and
\* overwrites the map entry of an existing id.
create1_overwrite(g, id, parent_id) ==
    IF ~exists(g, parent_id) THEN Result(g, VirusNotFound)
    ELSE Result(insert(add_child(add_parent(make_shared(g, id), id, parent_id),
                                 parent_id, id), id), "ok")

\* create(id, parent_id)
create1(g, id, parent_id) ==
    IF exists(g, id) THEN Result(g, VirusAlreadyCreated)
    ELSE IF ~exists(g, parent_id) THEN Result(g, VirusNotFound)
    ELSE Result(insert(add_child(add_parent(make_shared(g, id), id, parent_id),
                                 parent_id, id), id), "ok")

\* The validation loop of create(id, parent_ids): some listed parent is absent.
SomeParentMissing(g, parent_ids) ==
    \E i \in 1..Len(parent_ids) : ~exists(g, parent_ids[i])

\* A linking loop that also records each listed parent as a child of the new
\* node.
RECURSIVE LinkParents_both(_, _, _, _)
LinkParents_both(g, id, parent_ids, i) ==
    IF i > Len(parent_ids) THEN g
    ELSE LinkParents_both(
             add_parent(add_child(add_child(add_parent(g, id, parent_ids[i]),
                                            parent_ids[i], id),
                                  id, parent_ids[i]),
                        parent_ids[i], id),
             id, parent_ids, i + 1)

\* A linking loop that links the first listed parent only.
LinkParents_first(g, id, parent_ids, i) ==
    add_child(add_parent(g, id, parent_ids[1]), parent_ids[1], id)

\* The linking loop of create(id, parent_ids), from position i on.
RECURSIVE LinkParents(_, _, _, _)
LinkParents(g, id, parent_ids, i) ==
    IF i > Len(parent_ids) THEN g
    ELSE LinkParents(add_child(add_parent(g, id, parent_ids[i]), parent_ids[i], id),
                     id, parent_ids, i + 1)

\* A create(id, parent_ids) without the test for an empty vector.
createN_noempty(g, id, parent_ids) ==
    IF exists(g, id) THEN Result(g, VirusAlreadyCreated)
    ELSE IF SomeParentMissing(g, parent_ids) THEN Result(g, VirusNotFound)
    ELSE Result(insert(LinkParents(make_shared(g, id), id, parent_ids, 1), id), "ok")

\* A create(id, parent_ids) that links each parent as soon as it has found it,
\* and so has linked the parents listed before the first absent one when it throws.
createN_eager(g, id, parent_ids) ==
    IF exists(g, id) THEN Result(g, VirusAlreadyCreated)
    ELSE IF parent_ids = <<>> THEN Result(g, VirusNotFound)
    ELSE IF SomeParentMissing(g, parent_ids)
         THEN LET k == CHOOSE i \in 1..Len(parent_ids) :
                           /\ ~exists(g, parent_ids[i])
                           /\ \A j \in 1..(i - 1) : exists(g, parent_ids[j])
                  h == LinkParents(make_shared(g, id), id, SubSeq(parent_ids, 1, k - 1), 1)
              IN Result([g EXCEPT !.children =
                             [n \in DOMAIN g.children |-> h.children[n]]],
                        VirusNotFound)
    ELSE Result(insert(LinkParents(make_shared(g, id), id, parent_ids, 1), id), "ok")

\* create(id, parent_ids)
createN(g, id, parent_ids) ==
    IF exists(g, id) THEN Result(g, VirusAlreadyCreated)
    ELSE IF parent_ids = <<>> THEN Result(g, VirusNotFound)
    ELSE IF SomeParentMissing(g, parent_ids) THEN Result(g, VirusNotFound)
    ELSE Result(insert(LinkParents(make_shared(g, id), id, parent_ids, 1), id), "ok")

\* A connect with the two roles exchanged.
connect_swapped(g, child_id, parent_id) ==
    IF ~exists(g, parent_id) \/ ~exists(g, child_id) THEN Result(g, VirusNotFound)
    ELSE Result(add_child(add_parent(g, parent_id, child_id), child_id, parent_id), "ok")

\* A connect that rejects an edge that is already there.
connect_strict(g, child_id, parent_id) ==
    IF ~exists(g, parent_id) \/ ~exists(g, child_id) THEN Result(g, VirusNotFound)
    ELSE IF parent_id \in g.parents[child_id] THEN Result(g, VirusAlreadyCreated)
    ELSE Result(add_child(add_parent(g, child_id, parent_id), parent_id, child_id), "ok")

\* connect that records the edge on the child's side only.
connect_oneway(g, child_id, parent_id) ==
    IF ~exists(g, parent_id) \/ ~exists(g, child_id) THEN Result(g, VirusNotFound)
    ELSE Result(add_parent(g, child_id, parent_id), "ok")

\* connect(child_id, parent_id)
connect(g, child_id, parent_id) ==
    IF ~exists(g, parent_id) \/ ~exists(g, child_id) THEN Result(g, VirusNotFound)
    ELSE Result(add_child(add_parent(g, child_id, parent_id), parent_id, child_id), "ok")

\* remove's checks without the comparison with stem_id.
RemoveCheck_nostem(g, id) ==
    IF ~exists(g, id) THEN VirusNotFound ELSE "ok"

\* The two checks remove makes before it starts the cascade.
RemoveCheck(g, id) ==
    IF ~exists(g, id) THEN VirusNotFound
    ELSE IF id = stem_id THEN TriedToRemoveStemVirus
    ELSE "ok"

\* A first loop that leaves the parents' child sets alone.
DetachFromParents_skip(C, P, rem_it) == C

\* First loop of a cascade step: rem_it is erased from each parent's children.
DetachFromParents(C, P, rem_it) ==
    [n \in DOMAIN C |-> IF n \in P[rem_it] THEN C[n] \ {rem_it} ELSE C[n]]

\* A second loop that leaves the children's parent sets alone.
DetachFromChildren_skip(P, kids, rem_it) == P

\* A second loop that clears each child's parent set.
DetachFromChildren_clear(P, kids, rem_it) ==
    [n \in DOMAIN P |-> IF n \in kids THEN {} ELSE P[n]]

\* Second loop of a cascade step: rem_it is erased from each child's parents.
\* kids is rem_it->children as the loop sees it, after the first loop.
DetachFromChildren(P, kids, rem_it) ==
    [n \in DOMAIN P |-> IF n \in kids THEN P[n] \ {rem_it} ELSE P[n]]

\* A second loop without the comparison with stem_id.
Orphaned_nostem(P1, kids) == {c \in kids : Cardinality(P1[c]) = 0}

\* A second loop that pushes every child, whatever parents it has left.
Orphaned_all(P1, kids) == {c \in kids : c # stem_id}

\* A second loop that never pushes a child.
Orphaned_none(P1, kids) == {}

\* A second loop that pushes a child one parent too early.
Orphaned_early(P1, kids) == {c \in kids : Cardinality(P1[c]) <= 1 /\ c # stem_id}

\* The children the second loop pushes on the queue.
Orphaned(P1, kids) == {c \in kids : Cardinality(P1[c]) = 0 /\ c # stem_id}

\* An iteration that ends after the first element it meets.
Orders_first(S) == IF S = {} THEN {<<>>} ELSE {<<c>> : c \in S}

\* All orders in which a set can be iterated.
Orders(S) == {s \in [1..Cardinality(S) -> S] : \A i, j \in 1..Cardinality(S) :
                                                    i # j => s[i] # s[j]}

\* One of the iteration orders: ascending.
RECURSIVE Ascending(_)
Ascending(S) ==
    IF S = {} THEN <<>>
    ELSE LET m == CHOOSE x \in S : \A y \in S : x <= y
         IN <<m>> \o Ascending(S \ {m})

\* remove's while loop and swap, run to the end from queue q with every set
\* iterated in ascending order: the structure the call leaves.
RECURSIVE CascadeAscending(_, _, _, _)
CascadeAscending(q, copy, P, C) ==
    IF q = <<>>
    THEN Graph(copy, [n \in copy |-> P[n]], [n \in copy |-> C[n]])
    ELSE LET rem_it == Head(q)
             C1 == DetachFromParents(C, P, rem_it)
             kids == C1[rem_it]
             P1 == DetachFromChildren(P, kids, rem_it)
         IN CascadeAscending(Tail(q) \o Ascending(Orphaned(P1, kids)),
                             copy \ {rem_it}, P1, C1)

\* -------------------------------------------------------------- measures
EdgeCount(g) ==
    LET RECURSIVE Sum(_)
        Sum(S) == IF S = {} THEN 0
                  ELSE LET n == CHOOSE x \in S : TRUE
                       IN Cardinality(g.parents[n]) + Sum(S \ {n})
    IN Sum(DOMAIN g.parents)

ParentLists == UNION {[1..k -> Ids] : k \in 0..MaxParents}

\* The record of a call.  again: the call before it was the same operation with
\* the same arguments, and it succeeded.
Call(op, id, pids, res, again) ==
    [op |-> op, id |-> id, pids |-> pids, res |-> res, again |-> again]

Again(op, id, pids) ==
    last.op = op /\ last.id = id /\ last.pids = pids /\ last.res = "ok"

\* ---------------------------------------------------------------- system
\* VirusGenealogy(stem_id)
Init ==
    /\ viruses = {stem_id}
    /\ parents = [n \in {stem_id} |-> {}]
    /\ children = [n \in {stem_id} |-> {}]
    /\ pc = "idle"
    /\ to_remove = <<>>
    /\ viruses_copy = {}
    /\ last = Call("new", stem_id, <<>>, "ok", FALSE)
    /\ pre = Graph({}, <<>>, <<>>)

\* A completed call that leaves r.
Return(op, id, pids, r) ==
    /\ r.res = "ok" => EdgeCount(r.g) <= MaxEdges
    /\ viruses' = r.g.viruses
    /\ parents' = r.g.parents
    /\ children' = r.g.children
    /\ last' = Call(op, id, pids, r.res, Again(op, id, pids))
    /\ pre' = Cur
    /\ UNCHANGED <<pc, to_remove, viruses_copy>>

Create1 ==
    /\ pc = "idle"
    /\ \E id \in Ids, parent_id \in Ids :
          Return("create1", id, <<parent_id>>, create1(Cur, id, parent_id))

CreateN ==
    /\ pc = "idle"
    /\ \E id \in Ids, parent_ids \in ParentLists :
          Return("createN", id, parent_ids, createN(Cur, id, parent_ids))

Connect ==
    /\ pc = "idle"
    /\ \E child_id \in Ids, parent_id \in Ids :
          Return("connect", child_id, <<parent_id>>, connect(Cur, child_id, parent_id))

\* remove(id) throws before touching anything.
RemoveThrow ==
    /\ pc = "idle"
    /\ \E id \in Ids :
          /\ RemoveCheck(Cur, id) # "ok"
          /\ Return("remove", id, <<>>, Result(Cur, RemoveCheck(Cur, id)))

\* remove(id) passes its checks, copies the map and seeds the queue.
RemoveBegin ==
    /\ pc = "idle"
    /\ \E id \in Ids :
          /\ RemoveCheck(Cur, id) = "ok"
          /\ to_remove' = <<id>>
          /\ last' = Call("remove", id, <<>>, "running", FALSE)
    /\ viruses_copy' = viruses
    /\ pc' = "cascade"
    /\ pre' = Cur
    /\ UNCHANGED <<viruses, parents, children>>

\* One iteration of remove's while loop.
RemoveStep ==
    /\ pc = "cascade"
    /\ to_remove # <<>>
    /\ LET rem_it == Head(to_remove)
           C1 == DetachFromParents(children, parents, rem_it)
           kids == C1[rem_it]
           P1 == DetachFromChildren(parents, kids, rem_it)
       IN /\ children' = C1
          /\ parents' = P1
          /\ \E pushed \in Orders(Orphaned(P1, kids)) :
                to_remove' = Tail(to_remove) \o pushed
          /\ viruses_copy' = viruses_copy \ {rem_it}
    /\ UNCHANGED <<viruses, pc, last, pre>>

\* viruses.swap(viruses_copy); the old map is destroyed on return.
RemoveCommit ==
    /\ pc = "cascade"
    /\ to_remove = <<>>
    /\ viruses' = viruses_copy
    /\ parents' = [n \in viruses_copy |-> parents[n]]
    /\ children' = [n \in viruses_copy |-> children[n]]
    /\ viruses_copy' = {}
    /\ pc' = "idle"
    /\ last' = [last EXCEPT !.res = "ok"]
    /\ UNCHANGED <<to_remove, pre>>

Next ==
    \/ Create1
    \/ CreateN
    \/ Connect
    \/ RemoveThrow
    \/ RemoveBegin
    \/ RemoveStep
    \/ RemoveCommit

Spec == Init /\ [][Next]_vars

\* remove is a synchronous call: once it has started, its loop iterations and
\* its swap are taken.
LiveSpec == Spec /\ WF_vars(RemoveStep) /\ WF_vars(RemoveCommit)

TypeOK ==
    /\ viruses \subseteq Ids
    /\ DOMAIN parents = viruses
    /\ DOMAIN children = viruses
    /\ \A n \in viruses : parents[n] \subseteq Ids /\ children[n] \subseteq Ids
    /\ pc \in {"idle", "cascade"}
    /\ viruses_copy \subseteq viruses
    /\ pc = "idle" => to_remove = <<>> /\ viruses_copy = {}

\* ------------------------------------------------------ graph vocabulary
\* The nodes reachable from the nodes of S along child edges, S included,
\* by paths that never enter a node of `avoid`.
RECURSIVE ReachFrom(_, _, _)
ReachFrom(S, g, avoid) ==
    LET T == (S \cup UNION {g.children[n] : n \in S \cap DOMAIN g.children}) \ avoid
    IN IF T = S THEN S ELSE ReachFrom(T, g, avoid)

Descendants(g, n) == ReachFrom(g.children[n], g, {})

Acyclic(g) == \A n \in g.viruses : n \notin Descendants(g, n)

\* The last call is a completed remove(id) that passed its checks.
Removed == pc = "idle" /\ last.op = "remove" /\ last.res = "ok"

Gone == pre.viruses \ viruses

\* ---------------------------------------------------------------- claims
\* C1. Cascade node set: after a successful remove(id) on an acyclic structure
\* the existing nodes are exactly the nodes that were reachable from the root
\* along child edges by a path that does not pass through id; id is gone and
\* the root stays.
C1_CascadeNodeSet ==
    (Removed /\ Acyclic(pre)) =>
        /\ viruses = ReachFrom({stem_id}, pre, {last.id})
        /\ last.id \notin viruses
        /\ stem_id \in viruses

\* A cascade that took a descendant of id with it and kept another one.
C1_Witness ==
    /\ Removed /\ Acyclic(pre)
    /\ \E b, c \in Descendants(pre, last.id) : b \notin viruses /\ c \in viruses

\* C2. Invariant I1: after every completed call every node of the store other
\* than the root has a non-empty parent set.  (It holds whether or not a cycle
\* was ever introduced, so in particular for the cycle-free call sequences.)
C2_I1 ==
    pc = "idle" => \A n \in viruses \ {stem_id} : get_parents(Cur, n) # {}

\* A remove has cut a parent of a node that survives on its other parent.
C2_Witness ==
    /\ Removed
    /\ \E n \in viruses \ {stem_id} :
          /\ pre.parents[n] \cap Gone # {}
          /\ get_parents(Cur, n) # {}

\* C3. Invariant I2: after every completed call, B is in the child set of A
\* if and only if A is in the parent set of B, for all existing A and B.
C3_I2 ==
    pc = "idle" => \A a, b \in viruses :
                      b \in get_children(Cur, a) <=> a \in get_parents(Cur, b)

\* A connect has added an edge that was not there, and both ends record it.
C3_Witness ==
    /\ pc = "idle" /\ last.op = "connect" /\ last.res = "ok"
    /\ last.pids[1] \notin pre.parents[last.id]
    /\ last.pids[1] \in get_parents(Cur, last.id)
    /\ last.id \in get_children(Cur, last.pids[1])

\* C4. Cascade edge effect: after a successful remove(id) on an acyclic
\* structure every surviving node's parent set is its old parent set minus the
\* removed nodes, and its child set is its old child set minus the removed
\* nodes.
C4_CascadeEdges ==
    (Removed /\ Acyclic(pre)) =>
        /\ viruses \subseteq pre.viruses
        /\ \A n \in viruses :
              /\ get_parents(Cur, n) = pre.parents[n] \ Gone
              /\ get_children(Cur, n) = pre.children[n] \ Gone

\* The instance: root 0, create(1, 0), create(2, [0, 1]), remove(1).
C4_Witness ==
    /\ Removed /\ Acyclic(pre) /\ last.id = 1
    /\ pre.viruses = {0, 1, 2}
    /\ pre.parents[2] = {0, 1} /\ pre.parents[1] = {0}
    /\ get_parents(Cur, 2) = {0} /\ get_children(Cur, 0) = {2}

\* C5 as stated: a node other than id is absent after the remove if and only
\* if every one of its parents before the call is absent after it.
C5_AsStated ==
    (Removed /\ Acyclic(pre)) =>
        \A n \in pre.viruses \ {last.id} :
            n \notin viruses <=> \A p \in pre.parents[n] : p \notin viruses

\* C5. Last-link pruning, amended: a node other than id and other than the
\* root is absent after the remove if and only if every one of its parents
\* before the call is absent after it; the root, which has no parents, stays.
C5_LastLink ==
    (Removed /\ Acyclic(pre)) =>
        /\ stem_id \in viruses
        /\ \A n \in pre.viruses \ {last.id, stem_id} :
              n \notin viruses <=> \A p \in pre.parents[n] : p \notin viruses

\* A node with two parents lost one and stayed; another lost its last and went.
C5_Witness ==
    /\ Removed /\ Acyclic(pre)
    /\ \E n \in viruses \ {stem_id} :
          Cardinality(pre.parents[n]) = 2 /\ Cardinality(get_parents(Cur, n)) = 1
    /\ \E n \in Gone \ {last.id} : pre.parents[n] \subseteq Gone

\* The last call has returned or thrown.
Done(op) == pc = "idle" /\ last.op = op

Range(seq) == {seq[i] : i \in 1..Len(seq)}

\* C6. remove(stem_id) always throws TriedToRemoveStemVirus, never starts a
\* cascade, and leaves the node set and all parent and child sets as they were.
C6_RemoveRoot ==
    (last.op = "remove" /\ last.id = stem_id) =>
        /\ pc = "idle"
        /\ last.res = TriedToRemoveStemVirus
        /\ Cur = pre

\* remove(stem_id) was called on a structure with several nodes and edges,
\* one of them an edge into the root.
C6_Witness ==
    /\ Done("remove") /\ last.id = stem_id
    /\ Cardinality(pre.viruses) >= 3
    /\ pre.parents[stem_id] # {}

\* C7. Failure atomicity of the list create: when id is absent and some listed
\* parent is absent, at any position, create(id, parent_ids) throws
\* VirusNotFound, id stays absent and every node's sets are unchanged.
C7_CreateListAtomic ==
    (Done("createN") /\ ~exists(pre, last.id) /\ SomeParentMissing(pre, last.pids)) =>
        /\ last.res = VirusNotFound
        /\ ~exists(Cur, last.id)
        /\ Cur = pre

\* The absent parent is listed after one that exists.
C7_Witness ==
    /\ Done("createN") /\ ~exists(pre, last.id)
    /\ Len(last.pids) = 2
    /\ exists(pre, last.pids[1]) /\ ~exists(pre, last.pids[2])
    /\ last.res = VirusNotFound

\* C8. The remaining failures: connect with an absent endpoint and remove of
\* an absent id throw VirusNotFound, create(id, parent_id) throws
\* VirusAlreadyCreated when id exists and VirusNotFound when id is absent and
\* parent_id is absent; each leaves the structure as it was.
C8_StrongGuarantee ==
    /\ (Done("connect") /\ (~exists(pre, last.id) \/ ~exists(pre, last.pids[1]))) =>
            last.res = VirusNotFound /\ Cur = pre
    /\ (last.op = "remove" /\ ~exists(pre, last.id)) =>
            pc = "idle" /\ last.res = VirusNotFound /\ Cur = pre
    /\ (Done("create1") /\ exists(pre, last.id)) =>
            last.res = VirusAlreadyCreated /\ Cur = pre
    /\ (Done("create1") /\ ~exists(pre, last.id) /\ ~exists(pre, last.pids[1])) =>
            last.res = VirusNotFound /\ Cur = pre

\* create(id, parent_id) was called with an existing id that has children and
\* an existing parent_id.
C8_Witness ==
    /\ Done("create1") /\ exists(pre, last.id) /\ exists(pre, last.pids[1])
    /\ pre.children[last.id] # {}
    /\ last.res = VirusAlreadyCreated

\* C9. connect is idempotent: a connect(c, p) that directly follows a
\* successful connect(c, p) succeeds and changes nothing.
C9_ConnectIdempotent ==
    (Done("connect") /\ last.again) => last.res = "ok" /\ Cur = pre

\* The second of two connect(c, p) calls in a row has returned.
C9_Witness ==
    /\ Done("connect") /\ last.again /\ last.res = "ok"
    /\ last.pids[1] \in get_parents(Cur, last.id)
    /\ last.id \in get_children(Cur, last.pids[1])

\* What C10 says a successful create of id under the parents listed in pids
\* leaves.
CreateEffect(id, pids) ==
    /\ last.res = "ok"
    /\ viruses = pre.viruses \cup {id}
    /\ get_parents(Cur, id) = Range(pids)
    /\ get_children(Cur, id) = {}
    /\ \A n \in pre.viruses :
          /\ get_parents(Cur, n) = pre.parents[n]
          /\ get_children(Cur, n) =
                 pre.children[n] \cup (IF n \in Range(pids) THEN {id} ELSE {})

\* C10. Effect of a successful create: when id is absent and every listed
\* parent exists (the list non-empty, duplicates allowed), id exists afterwards
\* with exactly the listed parents and no children, each listed parent gains
\* the child id and nothing else changes; create(id, p) does on every structure
\* what create(id, [p]) does.
C10_CreateEffect ==
    /\ (Done("createN") /\ ~exists(pre, last.id) /\ last.pids # <<>>
          /\ ~SomeParentMissing(pre, last.pids)) => CreateEffect(last.id, last.pids)
    /\ (Done("create1") /\ ~exists(pre, last.id) /\ exists(pre, last.pids[1])) =>
            CreateEffect(last.id, last.pids)
    /\ pc = "idle" => \A id, p \in Ids : create1(Cur, id, p) = createN(Cur, id, <<p>>)

\* A create with two different parents has succeeded.
C10_Witness ==
    /\ Done("createN") /\ last.res = "ok"
    /\ Len(last.pids) = 2 /\ last.pids[1] # last.pids[2]
    /\ get_parents(Cur, last.id) = {last.pids[1], last.pids[2]}

\* C11. Effect of a successful connect: when child_id and parent_id both exist,
\* connect returns normally, the node set is unchanged, parent_id joins the
\* parent set of child_id, child_id joins the child set of parent_id, and no
\* other parent or child set changes.
C11_ConnectEffect ==
    (Done("connect") /\ exists(pre, last.id) /\ exists(pre, last.pids[1])) =>
        /\ last.res = "ok"
        /\ viruses = pre.viruses
        /\ \A n \in viruses :
              /\ get_parents(Cur, n) =
                     pre.parents[n] \cup (IF n = last.id THEN {last.pids[1]} ELSE {})
              /\ get_children(Cur, n) =
                     pre.children[n] \cup (IF n = last.pids[1] THEN {last.id} ELSE {})

\* A connect has given a second parent to a node, next to a bystander node.
C11_Witness ==
    /\ Done("connect") /\ last.res = "ok" /\ last.id # last.pids[1]
    /\ Cardinality(pre.parents[last.id]) = 1
    /\ Cardinality(get_parents(Cur, last.id)) = 2
    /\ viruses \ {last.id, last.pids[1]} # {}

\* C12. The root is never removed: the identifier given at construction is a
\* key of the map in every state, a cascade never puts the root on its queue
\* nor erases it from its copy of the map, also when the cascade empties the
\* root's own parent set.  (stem_id is a const member: get_stem_id returns the
\* constructor's argument by definition.)
C12_RootStays ==
    /\ exists(Cur, stem_id)
    /\ pc = "cascade" =>
          /\ stem_id \in viruses_copy
          /\ \A i \in 1..Len(to_remove) : to_remove[i] # stem_id

\* A remove has erased the only parent the root had, and the root is there.
C12_Witness ==
    /\ Removed
    /\ pre.parents[stem_id] # {}
    /\ get_parents(Cur, stem_id) = {}
    /\ exists(Cur, stem_id)

\* C13. Order independence of the cascade: on an acyclic structure, whatever
\* order remove(id) iterates the parent and child sets in, it leaves the node
\* set and the parent and child sets that the ascending order leaves.
C13_OrderIndependent ==
    (Removed /\ Acyclic(pre)) =>
        Cur = CascadeAscending(<<last.id>>, pre.viruses, pre.parents, pre.children)

\* A cascade in which one step orphaned two children, to be pushed in either
\* order.
C13_Witness ==
    /\ Removed /\ Acyclic(pre)
    /\ \E b, c \in Gone : /\ b # c
                          /\ pre.parents[b] = {last.id}
                          /\ pre.parents[c] = {last.id}

\* The outcome C14 gives create(id, parent_id) on structure g.
Create1Outcome(g, id, parent_id) ==
    IF exists(g, id) THEN VirusAlreadyCreated
    ELSE IF ~exists(g, parent_id) THEN VirusNotFound
    ELSE "ok"

\* C14. Outcome of create(id, parent_id): VirusAlreadyCreated whenever id
\* exists (also when parent_id is absent or equals id), VirusNotFound when id
\* is absent and parent_id is absent, success in every other case.
C14_Create1Outcome ==
    /\ Done("create1") => last.res = Create1Outcome(pre, last.id, last.pids[1])
    /\ pc = "idle" => \A id, p \in Ids :
                          create1(Cur, id, p).res = Create1Outcome(Cur, id, p)

\* create(id, parent_id) was called with an existing id and an absent parent.
C14_Witness ==
    /\ Done("create1")
    /\ exists(pre, last.id) /\ ~exists(pre, last.pids[1])
    /\ last.res = VirusAlreadyCreated

\* C15. create(id, parent_ids) with an empty vector and an absent id throws
\* VirusNotFound and changes nothing; every node a create call has made has a
\* parent.
C15_EmptyParentList ==
    /\ (Done("createN") /\ ~exists(pre, last.id) /\ last.pids = <<>>) =>
            /\ last.res = VirusNotFound
            /\ ~exists(Cur, last.id)
            /\ Cur = pre
    /\ (pc = "idle" /\ last.op \in {"create1", "createN"} /\ last.res = "ok") =>
            /\ exists(Cur, last.id)
            /\ get_parents(Cur, last.id) # {}

\* create(id, <<>>) was called with an absent id on a structure with edges.
C15_Witness ==
    /\ Done("createN") /\ ~exists(pre, last.id) /\ last.pids = <<>>
    /\ last.res = VirusNotFound
    /\ Cardinality(pre.viruses) >= 2

\* C16. Copy-then-commit of remove: at every step of the cascade before the
\* swap, the live structure (the existing ids and every existing node's parent
\* and child sets, as exists, get_parents and get_children report them) is
\* still the structure the call started from.
C16_CopyThenCommit ==
    pc = "cascade" =>
        /\ viruses = pre.viruses
        /\ \A n \in viruses :
              /\ get_parents(Cur, n) = pre.parents[n]
              /\ get_children(Cur, n) = pre.children[n]

\* C17. Termination of the cascade: every remove that has started its loop
\* reaches the swap; no node is on the queue twice or after it was erased from
\* the copy, and every iteration erases one more key from the copy, so there
\* are at most as many iterations as the store had nodes.
C17_CascadeTerminates ==
    /\ (pc = "cascade") ~> (pc = "idle")
    /\ [](pc = "cascade" =>
            /\ \A i \in 1..Len(to_remove) : to_remove[i] \in viruses_copy
            /\ \A i, j \in 1..Len(to_remove) : i # j => to_remove[i] # to_remove[j]
            /\ viruses_copy \subseteq pre.viruses)
    /\ [][(pc = "cascade" /\ pc' = "cascade") =>
              Cardinality(viruses_copy') = Cardinality(viruses_copy) - 1]_vars

\* A cascade of three iterations has reached its swap.
C17_Witness ==
    /\ Removed
    /\ Cardinality(Gone) = 3

\* C18. No dangling edges: after every completed call, every identifier in
\* the parent set or the child set of a node of the store is itself a key of
\* the store, so get_parents and get_children never return a removed id.
C18_NoDangling ==
    pc = "idle" => \A n \in viruses :
                      /\ get_parents(Cur, n) \subseteq viruses
                      /\ get_children(Cur, n) \subseteq viruses

\* A remove has erased a node that a surviving node had as a parent and
\* another surviving node had as a child.
C18_Witness ==
    /\ Removed
    /\ \E n \in viruses : pre.parents[n] \cap Gone # {}
    /\ \E n \in viruses : pre.children[n] \cap Gone # {}

\* C19. Reachability invariant: after every completed call that leaves an
\* acyclic structure (so after every call sequence that never introduces a
\* cycle), every node of the store is reachable from the root along child
\* edges, and the root has no parents.
C19_Reachable ==
    (pc = "idle" /\ Acyclic(Cur)) =>
        /\ viruses = ReachFrom({stem_id}, Cur, {})
        /\ get_parents(Cur, stem_id) = {}

\* A remove on an acyclic structure has left three nodes, one of them two
\* edges away from the root.
C19_Witness ==
    /\ Removed /\ Acyclic(Cur) /\ Acyclic(pre)
    /\ Cardinality(viruses) = 3
    /\ \E n \in viruses : n \notin get_children(Cur, stem_id) /\ n # stem_id

\* C20. Acyclicity is preserved by create and remove: a create call (either
\* overload) or a remove call on an acyclic structure, returning or throwing,
\* leaves an acyclic structure.  connect can introduce a cycle: connect(x, x),
\* and connect(a, d) with d a descendant of a, return normally and leave a
\* cycle.
C20_Acyclicity ==
    /\ (pc = "idle" /\ last.op \in {"create1", "createN", "remove"} /\ Acyclic(pre)) =>
            Acyclic(Cur)
    /\ (Done("connect") /\ exists(pre, last.id) /\ exists(pre, last.pids[1])
          /\ (last.id = last.pids[1] \/ last.pids[1] \in Descendants(pre, last.id))) =>
            last.res = "ok" /\ ~Acyclic(Cur)

\* connect(a, d), with d a proper descendant of a, has closed a cycle on a
\* structure that was acyclic.
C20_Witness ==
    /\ Done("connect") /\ last.res = "ok"
    /\ Acyclic(pre) /\ ~Acyclic(Cur)
    /\ last.id # last.pids[1]
    /\ last.pids[1] \in Descendants(pre, last.id)
====
